---- MODULE Spec2Model ----
(***************************************************************************)
(* bvr_chirp: an MQTT subscriber that decodes camera alerts and fans them  *)
(* out over one unbounded channel per enabled messaging service (Discord,  *)
(* Matrix, Slack), each served by its own worker thread.                   *)
(*                                                                         *)
(* The model follows src/main.rs (start-up and thread spawning),           *)
(* src/clients/mqtt_client.rs (ingestion and broadcast) and the three      *)
(* worker loops in src/clients/{discord,matrix,slack}_client.rs.           *)
(***************************************************************************)
EXTENDS Integers, Sequences, FiniteSets, TLC

\* ---------------------------------------------------------------- bounds

\* Number of broker events the subscription loop handles in one run.
MaxEvents == 2

\* Number of failed receives a worker logs before the model stops counting.
MaxRecvErrs == 1

\* Number of alerts waiting for the run() of src/matrix_client.rs.
MaxAlerts == 2

\* ------------------------------------------------------------- vocabulary

Discord == "Discord"
Matrix == "Matrix"
Slack == "Slack"

\* The three services of BvrChirpConfig, in the order main() looks at them.
Services == {Discord, Matrix, Slack}

\* The six required JSON fields, in the order run() extracts them.
FieldOrder == <<"target", "camera", "detections", "db_id", "time", "image">>

Fields == {FieldOrder[i] : i \in 1..Len(FieldOrder)}

\* ------------------------------------------------------------ JSON values

\* A serde_json::Value as far as run() looks at it: a string, a
\* non-string value (here a number) or Null (what indexing an absent key gives).
JStr(s) == [kind |-> "string", s |-> s]

JNumber == [kind |-> "number", s |-> ""]

JNull == [kind |-> "null", s |-> ""]

\* Value::as_str(): Some(s) for a string, None for anything else.
as_str(v) == IF v.kind = "string" THEN [some |-> TRUE, s |-> v.s]
             ELSE [some |-> FALSE, s |-> ""]

\* -------------------------------------------------------------- base64

\* The sextet of a character of the standard alphabet (the few the payloads
\* of this model use); -1 for a character outside the alphabet.
B64Val(c) == CASE c = "A" -> 0
               [] c = "Q" -> 16
               [] c = "R" -> 17
               [] c = "j" -> 35
               [] c = "9" -> 61
               [] c = "/" -> 63
               [] OTHER -> -1

\* One quantum of four characters, decoded; ok is FALSE on an invalid symbol,
\* misplaced padding or non-zero trailing bits.
B64Quantum(q, last) ==
    LET v == [i \in 1..4 |-> B64Val(q[i])]
        pad == IF q[4] = "=" THEN (IF q[3] = "=" THEN 2 ELSE 1) ELSE 0
        n == 4 - pad
        good == /\ \A i \in 1..n : v[i] >= 0
                /\ pad > 0 => last
                /\ pad = 1 => v[3] % 4 = 0
                /\ pad = 2 => v[2] % 16 = 0
        b1 == (v[1] * 4 + (v[2] \div 16)) % 256
        b2 == ((v[2] % 16) * 16 + (v[3] \div 4)) % 256
        b3 == ((v[3] % 4) * 64 + v[4]) % 256
    IN  IF ~good THEN [ok |-> FALSE, bytes |-> <<>>]
        ELSE [ok |-> TRUE,
              bytes |-> CASE pad = 0 -> <<b1, b2, b3>>
                          [] pad = 1 -> <<b1, b2>>
                          [] pad = 2 -> <<b1>>]

\* The characters of the image strings the payloads of this model carry.
Chars(text) == CASE text = "/9j/" -> <<"/", "9", "j", "/">>
                 [] text = "QQ==" -> <<"Q", "Q", "=", "=">>
                 [] text = "" -> <<>>
                 [] text = "!!!!" -> <<"!", "!", "!", "!">>
                 [] text = "QQ" -> <<"Q", "Q">>
                 [] text = "QR==" -> <<"Q", "R", "=", "=">>

RECURSIVE B64DecodeChars(_)
\* The decoding loop over quanta of four characters.
B64DecodeChars(s) ==
    IF s = <<>> THEN [ok |-> TRUE, bytes |-> <<>>]
    ELSE IF Len(s) < 4 THEN [ok |-> FALSE, bytes |-> <<>>]
    ELSE LET q == B64Quantum(SubSeq(s, 1, 4), Len(s) = 4)
             rest == B64DecodeChars(SubSeq(s, 5, Len(s)))
         IN  IF q.ok /\ rest.ok
             THEN [ok |-> TRUE, bytes |-> q.bytes \o rest.bytes]
             ELSE [ok |-> FALSE, bytes |-> <<>>]

\* BASE64_STANDARD.decode: padded, canonical; Err on anything else.
B64Decode(text) == B64DecodeChars(Chars(text))

\* ------------------------------------------------------------- payloads

\* The channel target that parses as u64; "#alerts" is one that does not.
IsU64 == {"123456789012345678"}

\* image strings that do not decode: a character outside the alphabet, no
\* padding, non-zero trailing bits.
BadImages == {"!!!!", "QQ", "QR=="}

\* The JSON object of a well-formed payload.
GoodObj(target, img) ==
    [f \in Fields |->
        CASE f = "target" -> JStr(target)
          [] f = "camera" -> JStr("front_door")
          [] f = "detections" -> JStr("person")
          [] f = "db_id" -> JStr("42")
          [] f = "time" -> JStr("2024-01-01 10:00:00")
          [] f = "image" -> JStr(img)]

\* obj with the fields of S replaced by v (absent key or wrong type).
Defect(obj, S, v) == [f \in Fields |-> IF f \in S THEN v ELSE obj[f]]

\* Which sets of fields the defective payloads lack.
DefectSets == {{f} : f \in Fields} \cup {{"camera", "time"}, {"db_id", "image"}, Fields}

Payload(utf8, json, obj) == [utf8 |-> utf8, json |-> json, obj |-> obj]

WellFormedPayloads ==
    {Payload(TRUE, TRUE, GoodObj("123456789012345678", "/9j/")),
     Payload(TRUE, TRUE, GoodObj("#alerts", "QQ=="))}

BadImagePayloads ==
    {Payload(TRUE, TRUE, GoodObj("123456789012345678", img)) : img \in BadImages}

DefectivePayloads ==
    {Payload(TRUE, TRUE, Defect(GoodObj("123456789012345678", "QQ=="), S, v)) :
        S \in DefectSets, v \in {JNull, JNumber}}

\* Payloads that lack a field and carry an image that does not decode.
DefectiveBadImagePayloads ==
    {Payload(TRUE, TRUE, Defect(GoodObj("123456789012345678", "!!!!"), {f}, JNull)) :
        f \in {"target", "time"}}

NotUtf8Payload == Payload(FALSE, FALSE, [f \in Fields |-> JNull])

NotJsonPayload == Payload(TRUE, FALSE, [f \in Fields |-> JNull])

Payloads ==
    WellFormedPayloads \cup BadImagePayloads \cup DefectivePayloads
        \cup DefectiveBadImagePayloads \cup {NotUtf8Payload, NotJsonPayload}

\* What the claims call a well-formed payload.
WellFormed(p) ==
    /\ p.utf8
    /\ p.json
    /\ \A f \in Fields : p.obj[f].kind = "string"
    /\ B64Decode(p.obj["image"].s).ok

\* --------------------------------------------------------- alert records

\* BvrChirpMessage::new with detections and time taking each other's place.
BvrChirpMessageSwapped(seq, target, camera_name, detections, db_id, time, image) ==
    [seq |-> seq, target |-> target, camera_name |-> camera_name,
     detections |-> time, db_id |-> db_id, time |-> detections, image |-> image]

\* BvrChirpMessage::new; seq numbers the record by the event it came from.
BvrChirpMessage(seq, target, camera_name, detections, db_id, time, image) ==
    [seq |-> seq, target |-> target, camera_name |-> camera_name,
     detections |-> detections, db_id |-> db_id, time |-> time, image |-> image]

NoMessage == BvrChirpMessage(0, "", "", "", "", "", <<>>)

Line(text, arg) == <<text, arg>>

RECURSIVE FirstMissingSkipsDbId(_, _)
\* FirstMissing without the db_id check.
FirstMissingSkipsDbId(obj, i) ==
    IF i > Len(FieldOrder) THEN 0
    ELSE IF FieldOrder[i] # "db_id" /\ ~as_str(obj[FieldOrder[i]]).some THEN i
    ELSE FirstMissingSkipsDbId(obj, i + 1)

RECURSIVE FirstMissingFromLast(_, _)
\* FirstMissing with the fields looked at from the last one back.
FirstMissingFromLast(obj, i) ==
    IF i > Len(FieldOrder) THEN 0
    ELSE LET later == FirstMissingFromLast(obj, i + 1)
         IN  IF later # 0 THEN later
             ELSE IF ~as_str(obj[FieldOrder[i]]).some THEN i
             ELSE 0

\* The first field, in extraction order from index i on, that as_str() rejects; 0 if none.
RECURSIVE FirstMissing(_, _)
FirstMissing(obj, i) ==
    IF i > Len(FieldOrder) THEN 0
    ELSE IF ~as_str(obj[FieldOrder[i]]).some THEN i
    ELSE FirstMissing(obj, i + 1)

Dropped(text, arg) == [ok |-> FALSE, log |-> <<Line(text, arg)>>, message |-> NoMessage]

\* The decoding half of the Publish arm of run(): every early `continue`
\* in source order, then BvrChirpMessage::new.
Decode(p, seq) ==
    IF ~p.utf8 THEN Dropped("MQTT: Failed to convert payload to string", "")
    ELSE IF ~p.json THEN Dropped("MQTT: Failed to parse JSON", "")
    ELSE LET m == FirstMissing(p.obj, 1) IN
    IF m # 0 THEN Dropped("MQTT: Missing field in JSON", FieldOrder[m])
    ELSE LET image == B64Decode(as_str(p.obj["image"]).s)
             received == Line("MQTT: Received message for camera", as_str(p.obj["camera"]).s)
         IN
    IF ~image.ok
    THEN [ok |-> FALSE,
          log |-> <<received, Line("MQTT: Failed to decode base64 image", "")>>,
          message |-> NoMessage]
    ELSE [ok |-> TRUE,
          log |-> <<received>>,
          message |-> BvrChirpMessage(seq,
                        as_str(p.obj["target"]).s,
                        as_str(p.obj["camera"]).s,
                        as_str(p.obj["detections"]).s,
                        as_str(p.obj["db_id"]).s,
                        as_str(p.obj["time"]).s,
                        image.bytes)]

\* -------------------------------------------------------------- templates

\* A text is a sequence of pieces; every placeholder of a template, and every
\* placeholder-like part of a field value, is one piece, so that
\* str::replace(from, to) replaces exactly the pieces equal to `from`.
Placeholders ==
    {"<IMG_URI>", "<IMG_ID>", "<CAMERA_NAME>", "<TIME>", "<DETECTIONS>", "<ENDPOINT_URL>"}

\* message_templates::MATRIX_TEMPLATE, cut at its placeholders.
MATRIX_TEMPLATE ==
    <<"{ msgtype: m.room.message, body: Detection on ", "<CAMERA_NAME>",
      " camera, Detections: ", "<DETECTIONS>", ", Time ", "<TIME>",
      ", formatted_body: <strong>Detection on ", "<CAMERA_NAME>",
      " camera</strong><br><br><strong>Detections</strong><br>", "<DETECTIONS>",
      "<br><br><strong>Time</strong><br>", "<TIME>",
      ", format: org.matrix.custom.html, url: ", "<IMG_URI>", " }">>

\* message_templates::SLACK_TEMPLATE, cut at its placeholders.
SLACK_TEMPLATE ==
    <<"[ { type: divider }, { type: image, slack_file: { id: ", "<IMG_ID>",
      " }, alt_text: camera image }, { type: section, text: Detection on ",
      "<CAMERA_NAME>", " camera, accessory: { type: button, text: View Alert, url: ",
      "<ENDPOINT_URL>", " } }, { type: section, fields: [ Time, ", "<TIME>",
      ", Detections, ", "<DETECTIONS>", " ] } ]">>

RECURSIVE replace(_, _, _)
\* str::replace: every occurrence of `from`, left to right, becomes `to`;
\* what was put in is not looked at again by the same call.
replace(msg, from, to) ==
    IF msg = <<>> THEN <<>>
    ELSE (IF Head(msg) = from THEN to ELSE <<Head(msg)>>)
            \o replace(Tail(msg), from, to)

\* format!("{}/ui3.htm?rec={}&cam={}&m=1", alert_endpoint, db_id, camera_name)
DeepLink(alert_endpoint, db_id, camera_name) ==
    alert_endpoint \o <<"/ui3.htm?rec=">> \o db_id \o <<"&cam=">>
        \o camera_name \o <<"&m=1">>

\* The replace calls of matrix_client::build_message, in its order, on msg.
MatrixReplaceAll(msg, content_uri, alert_endpoint, bvr_msg) ==
    LET m1 == replace(msg, "<IMG_URI>", content_uri)
        m2 == replace(m1, "<CAMERA_NAME>", bvr_msg.camera_name)
        m3 == replace(m2, "<TIME>", bvr_msg.time)
        m4 == replace(m3, "<DETECTIONS>", bvr_msg.detections)
    IN  replace(m4, "<ENDPOINT_URL>",
                DeepLink(alert_endpoint, bvr_msg.db_id, bvr_msg.camera_name))

\* matrix_client::build_message
MatrixBuildMessage(content_uri, alert_endpoint, bvr_msg) ==
    MatrixReplaceAll(MATRIX_TEMPLATE, content_uri, alert_endpoint, bvr_msg)

\* The replace calls of slack_client::build_message, in its order, on msg.
SlackReplaceAll(msg, alert_endpoint, file_id, bvr_msg) ==
    LET m1 == replace(msg, "<IMG_ID>", file_id)
        m2 == replace(m1, "<CAMERA_NAME>", bvr_msg.camera_name)
        m3 == replace(m2, "<ENDPOINT_URL>",
                      DeepLink(alert_endpoint, bvr_msg.db_id, bvr_msg.camera_name))
        m4 == replace(m3, "<TIME>", bvr_msg.time)
    IN  replace(m4, "<DETECTIONS>", bvr_msg.detections)

\* slack_client::build_message
SlackBuildMessage(alert_endpoint, file_id, bvr_msg) ==
    SlackReplaceAll(SLACK_TEMPLATE, alert_endpoint, file_id, bvr_msg)

\* The embed start() builds: title, url and the two fields, one after another.
DiscordEmbed(alert_endpoint, bvr_msg) ==
    <<"title: Detection on ">> \o bvr_msg.camera_name \o <<" camera", " url: ">>
        \o DeepLink(alert_endpoint, bvr_msg.db_id, bvr_msg.camera_name)
        \o <<" **Detections**: ">> \o bvr_msg.detections
        \o <<" **Time**: ">> \o bvr_msg.time

\* The reference an upload returns (a Matrix content URI, a Slack file id).
AssetRef(d) == IF d = Matrix THEN <<"mxc://example.org/abc">> ELSE <<"F0123ABC">>

\* What service d renders for bvr_msg.
Render(d, alert_endpoint, bvr_msg) ==
    CASE d = Discord -> DiscordEmbed(alert_endpoint, bvr_msg)
      [] d = Matrix -> MatrixBuildMessage(AssetRef(d), alert_endpoint, bvr_msg)
      [] d = Slack -> SlackBuildMessage(alert_endpoint, AssetRef(d), bvr_msg)

\* Rendering started from msg instead of the template.
RenderAgain(d, msg, alert_endpoint, bvr_msg) ==
    CASE d = Matrix -> MatrixReplaceAll(msg, AssetRef(d), alert_endpoint, bvr_msg)
      [] d = Slack -> SlackReplaceAll(msg, alert_endpoint, AssetRef(d), bvr_msg)
      [] d = Discord -> msg

\* The field values and endpoint bases rendering is checked with; some field
\* values are placeholder text.
CameraNames == {<<"front_door">>, <<"<TIME>">>, <<"<DETECTIONS>">>}

DetectionTexts == {<<"person">>, <<"<CAMERA_NAME>">>, <<"<TIME>">>}

TimeTexts == {<<"2024-01-01 10:00:00">>, <<"<DETECTIONS>">>}

DbIds == {<<"42">>, <<"7">>}

Endpoints == {<<"http://127.0.0.1:81">>, <<"https://bi.example.org">>}

\* ------------------------------------------------------------------ state

VARIABLES
    cfg,          \* cfg.<service>_config.enabled, per service
    mainPc,       \* where the main thread is: main() and then mqtt_client::run
    procAlive,    \* FALSE once the process has exited
    tx_senders,   \* main's Vec<TxClient>, as the names in push order
    rxAlive,      \* per service: its Receiver exists and has not been dropped
    queue,        \* per service: the messages in its unbounded channel
    events,       \* how many broker events run() has taken
    lastEvent,    \* which arm of run()'s match took the latest broker event
    mqttLog,      \* what run() logged while handling the latest event
    discarded,    \* how many Publish payloads run() has discarded
    wpc,          \* per service: where its worker thread is
    cur,          \* per service: the message its worker holds (bvr_msg)
    steps,        \* per service: adapter calls made for cur, in order
    outcome,      \* per service: how processing of cur ended
    wlog,         \* per service: what the worker logged since it took cur
    render,       \* build_message on its own: the inputs and what it returned
    join,         \* src/matrix_client.rs: per room, its autojoin task
    legacy        \* src/matrix_client.rs: run() and its receiver

vars == <<cfg, mainPc, procAlive, tx_senders, rxAlive, queue, events, lastEvent,
          mqttLog, discarded, wpc, cur, steps, outcome, wlog, render, join, legacy>>

\* What main() and its threads never touch.
apartVars == <<render, join, legacy>>

\* What belongs to main() and its threads.
programVars == <<cfg, mainPc, procAlive, tx_senders, rxAlive, queue, events, lastEvent,
                 mqttLog, discarded, wpc, cur, steps, outcome, wlog>>

mainVars == <<mainPc, tx_senders, events, lastEvent, mqttLog, discarded>>

workerVars == <<wpc, cur, steps, outcome, wlog>>

\* The rooms the bot can be invited to.
Rooms == {"!a:example.org", "!b:example.org"}

\* build_message has not been called.
NoRender ==
    [pc |-> "none", service |-> Discord, alert_endpoint |-> <<>>,
     bvr_msg |-> NoMessage, out |-> <<>>]

\* No autojoin task for a room: no invite has been handled.
NoTask == [pc |-> "none", delay |-> 0, attempts |-> 0, waits |-> <<>>, log |-> <<>>]

\* run() of src/matrix_client.rs has not been called.
NoLegacy ==
    [pc |-> "none", queue |-> <<>>, senders |-> FALSE, cur |-> NoMessage,
     steps |-> <<>>, log |-> <<>>]

\* main() has spawned nothing yet.
NotStarted ==
    /\ mainPc = "spawn_discord"
    /\ procAlive = TRUE
    /\ tx_senders = <<>>
    /\ rxAlive = [d \in Services |-> FALSE]
    /\ queue = [d \in Services |-> <<>>]
    /\ events = 0
    /\ lastEvent = "none"
    /\ mqttLog = <<>>
    /\ discarded = 0
    /\ wpc = [d \in Services |-> "unspawned"]
    /\ cur = [d \in Services |-> NoMessage]
    /\ steps = [d \in Services |-> <<>>]
    /\ outcome = [d \in Services |-> "none"]
    /\ wlog = [d \in Services |-> <<>>]

Init ==
    /\ cfg \in [Services -> BOOLEAN]
    /\ render = NoRender
    /\ join = [r \in Rooms |-> NoTask]
    /\ legacy = NoLegacy
    /\ mainPc = "spawn_discord"
    /\ procAlive = TRUE
    /\ tx_senders = <<>>
    /\ rxAlive = [d \in Services |-> FALSE]
    /\ queue = [d \in Services |-> <<>>]
    /\ events = 0
    /\ lastEvent = "none"
    /\ mqttLog = <<>>
    /\ discarded = 0
    /\ wpc = [d \in Services |-> "unspawned"]
    /\ cur = [d \in Services |-> NoMessage]
    /\ steps = [d \in Services |-> <<>>]
    /\ outcome = [d \in Services |-> "none"]
    /\ wlog = [d \in Services |-> <<>>]

\* ------------------------------------------------------------ main thread

\* One `if cfg.<d>_config.enabled { ... }` block of main(): create the
\* unbounded channel, push its TxClient, spawn the worker thread.
SpawnBlock(d, pc, next) ==
    /\ procAlive
    /\ mainPc = pc
    /\ mainPc' = next
    /\ IF cfg[d]
       THEN /\ tx_senders' = Append(tx_senders, d)
            /\ rxAlive' = [rxAlive EXCEPT ![d] = TRUE]
            /\ wpc' = [wpc EXCEPT ![d] = "init"]
       ELSE UNCHANGED <<tx_senders, rxAlive, wpc>>
    /\ UNCHANGED <<apartVars, cfg, procAlive, queue, events, lastEvent, mqttLog, discarded,
                   cur, steps, outcome, wlog>>

SpawnDiscord == SpawnBlock(Discord, "spawn_discord", "spawn_matrix")

SpawnMatrix == SpawnBlock(Matrix, "spawn_matrix", "spawn_slack")

SpawnSlack == SpawnBlock(Slack, "spawn_slack", "subscribe")

\* client.subscribe(..).unwrap(): a panic of the main thread ends the process.
MqttSubscribe ==
    /\ procAlive
    /\ mainPc = "subscribe"
    /\ \E ok \in BOOLEAN :
          IF ok
          THEN /\ mainPc' = "listening"
               /\ mqttLog' = <<Line("MQTT: Successfully subscribed to topic", "")>>
               /\ UNCHANGED procAlive
          ELSE /\ mainPc' = "panicked"
               /\ mqttLog' = <<>>
               /\ procAlive' = FALSE
    /\ UNCHANGED <<apartVars, cfg, tx_senders, rxAlive, queue, events, lastEvent, discarded,
                   wpc, cur, steps, outcome, wlog>>

\* ChannelFull for a bounded(1) channel.
ChannelFullBounded(q) == Len(q) >= 1

\* crossbeam_channel::unbounded: a send never finds the channel full.
ChannelFull(q) == FALSE

\* Sender::send: Err exactly when the receiver has been dropped.
SendOk(alive) == alive

\* Broadcast that sends to tx_clients[0] alone.
BroadcastOnlyFirst(clients, message, q, rx) ==
    IF clients = <<>> THEN [queue |-> q, log |-> <<>>]
    ELSE LET client == Head(clients)
         IN  IF rx[client]
             THEN [queue |-> [q EXCEPT ![client] = Append(@, message)],
                   log |-> <<Line("MQTT: Passed message to", client)>>]
             ELSE [queue |-> q,
                   log |-> <<Line("MQTT: Failed to send message through channel to", client)>>]

RECURSIVE BroadcastStopOnFail(_, _, _, _)
\* Broadcast that leaves the loop at the first failed send.
BroadcastStopOnFail(clients, message, q, rx) ==
    IF clients = <<>> THEN [queue |-> q, log |-> <<>>]
    ELSE LET client == Head(clients)
         IN  IF ~rx[client]
             THEN [queue |-> q,
                   log |-> <<Line("MQTT: Failed to send message through channel to", client)>>]
             ELSE LET rest == BroadcastStopOnFail(Tail(clients), message,
                                  [q EXCEPT ![client] = Append(@, message)], rx)
                  IN  [queue |-> rest.queue,
                       log |-> <<Line("MQTT: Passed message to", client)>> \o rest.log]

RECURSIVE BroadcastSkipsDead(_, _, _, _)
\* Broadcast that passes over a client whose earlier send failed.
BroadcastSkipsDead(clients, message, q, rx) ==
    IF clients = <<>> THEN [queue |-> q, log |-> <<>>]
    ELSE LET client == Head(clients)
             rest == BroadcastSkipsDead(Tail(clients), message,
                         IF rx[client] THEN [q EXCEPT ![client] = Append(@, message)] ELSE q,
                         rx)
         IN  [queue |-> rest.queue,
              log |-> (IF rx[client] THEN <<Line("MQTT: Passed message to", client)>>
                       ELSE <<>>) \o rest.log]

RECURSIVE Broadcast(_, _, _, _)
\* `for client in &tx_clients`: one send of a clone per client, in order,
\* each logged as passed or failed; a failed send does not leave the loop.
Broadcast(clients, message, q, rx) ==
    IF clients = <<>> THEN [queue |-> q, log |-> <<>>]
    ELSE LET client == Head(clients)
             ok == SendOk(rx[client])
             q1 == IF ok THEN [q EXCEPT ![client] = Append(@, message)] ELSE q
             line == IF ok THEN Line("MQTT: Passed message to", client)
                     ELSE Line("MQTT: Failed to send message through channel to", client)
             rest == Broadcast(Tail(clients), message, q1, rx)
         IN  [queue |-> rest.queue, log |-> <<line>> \o rest.log]

\* AfterDiscard with `break` for `continue`.
AfterDiscardBreaks == "returned"

\* Where the loop is after a message was discarded: `continue`.
AfterDiscard == "listening"

\* The Publish arm of run() for payload p: decode, then broadcast or discard.
Publish(p) ==
    /\ procAlive
    /\ mainPc = "listening"
    /\ events < MaxEvents
    /\ \A i \in 1..Len(tx_senders) : ~ChannelFull(queue[tx_senders[i]])
    /\ LET d == Decode(p, events + 1)
           b == Broadcast(tx_senders, d.message, queue, rxAlive)
       IN  /\ lastEvent' = "publish"
           /\ events' = events + 1
           /\ IF d.ok
              THEN /\ queue' = b.queue
                   /\ mqttLog' = d.log \o b.log
                   /\ discarded' = discarded
                   /\ mainPc' = "listening"
              ELSE /\ queue' = queue
                   /\ mqttLog' = d.log
                   /\ discarded' = discarded + 1
                   /\ mainPc' = AfterDiscard
    /\ UNCHANGED <<apartVars, cfg, procAlive, tx_senders, rxAlive, wpc, cur, steps, outcome, wlog>>

MqttPublish == \E p \in Payloads : Publish(p)

\* The `_ => {}` arm: any other packet is ignored.
MqttOther ==
    /\ procAlive
    /\ mainPc = "listening"
    /\ events < MaxEvents
    /\ lastEvent' = "other"
    /\ events' = events + 1
    /\ mqttLog' = <<>>
    /\ UNCHANGED <<apartVars, cfg, mainPc, procAlive, tx_senders, rxAlive, queue, discarded,
                   wpc, cur, steps, outcome, wlog>>

\* AfterError with `continue` for `break`.
AfterErrorContinues == "listening"

\* Where the loop is after an Err event: `break`.
AfterError == "returned"

\* The Err arm: log and break; run() returns and drops tx_clients.
MqttError ==
    /\ procAlive
    /\ mainPc = "listening"
    /\ lastEvent' = "error"
    /\ mqttLog' = <<Line("MQTT: Error parsing message", "")>>
    /\ mainPc' = AfterError
    /\ UNCHANGED <<apartVars, cfg, procAlive, tx_senders, rxAlive, queue, events, discarded,
                   wpc, cur, steps, outcome, wlog>>

\* main() returns after run(): the process exits, taking every thread with it.
MainReturn ==
    /\ procAlive
    /\ mainPc = "returned"
    /\ procAlive' = FALSE
    /\ mainPc' = "exited"
    /\ UNCHANGED <<apartVars, cfg, tx_senders, rxAlive, queue, events, lastEvent, mqttLog,
                   discarded, wpc, cur, steps, outcome, wlog>>

\* ---------------------------------------------------------- worker threads

\* What a network call can come back with: success, a reply that reports
\* failure (non-2xx status, a body without the expected fields), or no reply.
Responses == {"ok", "rejected", "transport_error"}

Call(name, res) == <<name, res>>

\* The Result a `?` on send() alone gives: Err only when no reply came.
SendOnly(res) == IF res = "transport_error" THEN "err" ELSE "ok"

\* The Result of a call that also checks the reply.
Checked(res) == IF res = "ok" THEN "ok" ELSE "err"

\* OnInitError with every service calling exit(1).
OnInitErrorAlwaysExit(d) == "exit"

\* What a worker does when its client cannot be constructed: Discord's start()
\* returns Err to its thread, run_matrix_client() calls exit(1).
OnInitError(d) == IF d = Matrix THEN "exit" ELSE "return"

\* Recv that leaves the message it hands out in the channel.
RecvPeek(q) == [msg |-> Head(q), rest |-> q]

\* Recv that hands out the newest message.
RecvNewest(q) == [msg |-> q[Len(q)], rest |-> SubSeq(q, 1, Len(q) - 1)]

\* Receiver::recv on a non-empty channel: the oldest message.
Recv(q) == [msg |-> Head(q), rest |-> Tail(q)]

\* A worker thread is gone: its Receiver is dropped with it.
ThreadEnds(d, pc) ==
    /\ wpc' = [wpc EXCEPT ![d] = pc]
    /\ rxAlive' = [rxAlive EXCEPT ![d] = FALSE]

\* Client construction at the top of a worker.
WorkerInit(d, ready, failure) ==
    /\ procAlive
    /\ wpc[d] = "init"
    /\ \E ok \in BOOLEAN :
          IF ok
          THEN /\ wpc' = [wpc EXCEPT ![d] = "recv"]
               /\ wlog' = [wlog EXCEPT ![d] = <<ready>>]
               /\ UNCHANGED <<procAlive, rxAlive>>
          ELSE /\ wlog' = [wlog EXCEPT ![d] = failure]
               /\ ThreadEnds(d, "init_failed")
               /\ procAlive' = (OnInitError(d) # "exit")
    /\ UNCHANGED <<apartVars, cfg, queue, cur, steps, outcome, mainVars>>

\* discord_client::start, Client::builder; on Err the thread's closure in
\* main() logs the returned error.
DiscordInit ==
    WorkerInit(Discord, Line("DISCORD: Client ready", ""),
               <<Line("DISCORD: Error connecting client", ""),
                 Line("Error connecting to matrix", "")>>)

\* run_matrix_client, MatrixClient::new.
MatrixInit ==
    WorkerInit(Matrix, Line("MATRIX: Client ready", ""),
               <<Line("SLACK: unable to create client. Aborting", "")>>)

\* run_slack_client: SlackClient::new cannot fail.
SlackInit ==
    /\ procAlive
    /\ wpc[Slack] = "init"
    /\ wpc' = [wpc EXCEPT ![Slack] = "recv"]
    /\ wlog' = [wlog EXCEPT ![Slack] = <<Line("SLACK: Client ready", "")>>]
    /\ UNCHANGED <<apartVars, cfg, procAlive, rxAlive, queue, cur, steps, outcome, mainVars>>

\* Take with the receive also answered while the worker is busy with the
\* message it holds.
TakeWhileBusy(d, next) ==
    /\ procAlive
    /\ wpc[d] \notin {"unspawned", "init", "init_failed", "returned", "panicked"}
    /\ queue[d] # <<>>
    /\ queue' = [queue EXCEPT ![d] = Recv(@).rest]
    /\ cur' = [cur EXCEPT ![d] = Recv(queue[d]).msg]
    /\ steps' = [steps EXCEPT ![d] = <<>>]
    /\ outcome' = [outcome EXCEPT ![d] = "pending"]
    /\ wlog' = [wlog EXCEPT ![d] = <<>>]
    /\ wpc' = [wpc EXCEPT ![d] = next]
    /\ UNCHANGED <<apartVars, cfg, procAlive, rxAlive, mainVars>>

\* rx.recv() returning Ok(msg): the worker now holds msg and is at `next`.
Take(d, next) ==
    /\ procAlive
    /\ wpc[d] = "recv"
    /\ queue[d] # <<>>
    /\ queue' = [queue EXCEPT ![d] = Recv(@).rest]
    /\ cur' = [cur EXCEPT ![d] = Recv(queue[d]).msg]
    /\ steps' = [steps EXCEPT ![d] = <<>>]
    /\ outcome' = [outcome EXCEPT ![d] = "pending"]
    /\ wlog' = [wlog EXCEPT ![d] = <<>>]
    /\ wpc' = [wpc EXCEPT ![d] = next]
    /\ UNCHANGED <<apartVars, cfg, procAlive, rxAlive, mainVars>>

RecvFailed(d) == Line("Failed to receive message", d)

\* How many times the worker has logged a failed receive since it took cur.
RecvErrs(d) == Cardinality({i \in 1..Len(wlog[d]) : wlog[d][i] = RecvFailed(d)})

\* rx.recv() returning Err (channel empty, senders dropped): log, `continue`.
RecvErr(d) ==
    /\ procAlive
    /\ wpc[d] = "recv"
    /\ queue[d] = <<>>
    /\ mainPc = "returned"
    /\ RecvErrs(d) < MaxRecvErrs
    /\ wlog' = [wlog EXCEPT ![d] = Append(@, RecvFailed(d))]
    /\ UNCHANGED <<apartVars, cfg, procAlive, rxAlive, queue, wpc, cur, steps, outcome, mainVars>>

\* One adapter call of worker d has come back: record it, log, move on.
Step(d, pc, calls, next, result, lines) ==
    /\ procAlive
    /\ wpc[d] = pc
    /\ steps' = [steps EXCEPT ![d] = @ \o calls]
    /\ wlog' = [wlog EXCEPT ![d] = @ \o lines]
    /\ outcome' = [outcome EXCEPT ![d] = result]
    /\ wpc' = [wpc EXCEPT ![d] = next]
    /\ UNCHANGED <<apartVars, cfg, procAlive, queue, cur, mainVars>>

\* ---- Discord: start()

\* OnInvalidChannel with the error returned from start().
OnInvalidChannelReturns == "return"

\* What start() does when the target does not parse: `continue`.
OnInvalidChannel == "continue"

\* recv, then bvr_msg.target.parse::<u64>(): log and `continue` on failure.
DiscordRecv ==
    /\ procAlive
    /\ wpc[Discord] = "recv"
    /\ queue[Discord] # <<>>
    /\ LET msg == Recv(queue[Discord]).msg
           parsed == msg.target \in IsU64
       IN  /\ queue' = [queue EXCEPT ![Discord] = Recv(@).rest]
           /\ cur' = [cur EXCEPT ![Discord] = msg]
           /\ steps' = [steps EXCEPT ![Discord] = <<>>]
           /\ IF parsed
              THEN /\ wpc' = [wpc EXCEPT ![Discord] = "send_message"]
                   /\ outcome' = [outcome EXCEPT ![Discord] = "pending"]
                   /\ wlog' = [wlog EXCEPT ![Discord] = <<>>]
                   /\ UNCHANGED rxAlive
              ELSE /\ outcome' = [outcome EXCEPT ![Discord] = "err"]
                   /\ wlog' = [wlog EXCEPT ![Discord] =
                                  <<Line("DISCORD: Invalid channel ID", msg.target)>>]
                   /\ IF OnInvalidChannel = "continue"
                      THEN UNCHANGED <<wpc, rxAlive>>
                      ELSE ThreadEnds(Discord, "returned")
    /\ UNCHANGED <<apartVars, cfg, procAlive, mainVars>>

\* channel.send_message(..).await: both arms log and fall through to the loop.
DiscordSend ==
    \E res \in {"ok", "transport_error"} :
        /\ Step(Discord, "send_message", <<Call("send_message", res)>>, "recv",
                IF res = "ok" THEN "ok" ELSE "err",
                IF res = "ok" THEN <<Line("DISCORD: Message sent", "")>>
                ELSE <<Line("DISCORD: Sending error", "")>>)
        /\ UNCHANGED rxAlive

\* ---- Matrix: run_matrix_client(), MatrixClient::process_alert

MatrixRecv == Take(Matrix, "upload_file")

MatrixError(text) == <<Line("MATRIX: Error processing message", text)>>

\* AfterUploadFailed with the `?` left out.
AfterUploadFailedSends == "send_message"

\* Where process_alert is after upload_file returned Err: `?` returns it.
AfterUploadFailed == "recv"

\* self.upload_file(..).await?
MatrixUpload ==
    \E res \in {"ok", "transport_error"} :
        /\ IF res = "ok"
           THEN Step(Matrix, "upload_file", <<Call("upload_file", res)>>,
                     "send_message", "pending", <<>>)
           ELSE Step(Matrix, "upload_file", <<Call("upload_file", res)>>,
                     AfterUploadFailed, "err", MatrixError("Upload failed"))
        /\ UNCHANGED rxAlive

\* self.send_message(..).await?: build_message, get_room, room.send.
MatrixSend ==
    \E res \in {"ok", "no_room", "transport_error"} :
        /\ CASE res = "ok" ->
                  Step(Matrix, "send_message",
                       <<Call("build_message", "ok"), Call("get_room", "ok"),
                         Call("room_send", "ok")>>,
                       "recv", "ok", <<Line("MATRIX: Message sent", "")>>)
             [] res = "no_room" ->
                  Step(Matrix, "send_message",
                       <<Call("build_message", "ok"), Call("get_room", "none")>>,
                       "recv", "err", MatrixError("Failed to find the room"))
             [] res = "transport_error" ->
                  Step(Matrix, "send_message",
                       <<Call("build_message", "ok"), Call("get_room", "ok"),
                         Call("room_send", "transport_error")>>,
                       "recv", "err", MatrixError("send failed"))
        /\ UNCHANGED rxAlive

\* ---- Slack: run_slack_client(), SlackClient::process_alert

SlackRecv == Take(Slack, "get_upload_url")

SlackError(text) == <<Line("SLACK: Error processing message", text)>>

\* get_upload_url: `?` on the request, the body and both fields.
SlackGetUploadUrl ==
    \E res \in Responses :
        /\ IF res = "ok"
           THEN Step(Slack, "get_upload_url", <<Call("get_upload_url", Checked(res))>>,
                     "upload_file_data", "pending", <<>>)
           ELSE Step(Slack, "get_upload_url", <<Call("get_upload_url", Checked(res))>>,
                     "recv", "err", SlackError("Image upload failed"))
        /\ UNCHANGED rxAlive

\* What upload_file does with an Err of upload_file_data: .expect(..) panics.
OnUploadDataErr == "panic"

\* upload_file_data(..).await.expect("TODO: panic message")
SlackUploadFileData ==
    \E res \in Responses :
        IF res = "ok"
        THEN /\ Step(Slack, "upload_file_data", <<Call("upload_file_data", Checked(res))>>,
                     "complete_upload", "pending", <<>>)
             /\ UNCHANGED rxAlive
        ELSE IF OnUploadDataErr = "panic"
        THEN /\ procAlive
             /\ wpc[Slack] = "upload_file_data"
             /\ steps' = [steps EXCEPT ![Slack] = Append(@, Call("upload_file_data", Checked(res)))]
             /\ wlog' = [wlog EXCEPT ![Slack] =
                            Append(@, Line("thread panicked", "TODO: panic message"))]
             /\ outcome' = [outcome EXCEPT ![Slack] = "panic"]
             /\ ThreadEnds(Slack, "panicked")
             /\ UNCHANGED <<apartVars, cfg, procAlive, queue, cur, mainVars>>
        ELSE /\ Step(Slack, "upload_file_data", <<Call("upload_file_data", Checked(res))>>,
                     "recv", "err", SlackError("Image upload failed"))
             /\ UNCHANGED rxAlive

\* AfterBuildMessage without the sleep.
AfterBuildMessageSendsAtOnce == "send_message"

\* What process_alert does between build_message and send_message: the sleep.
AfterBuildMessage == "sleep"

\* complete_upload: `?` on send() alone, the reply is not looked at; then
\* build_message.
SlackCompleteUpload ==
    \E res \in Responses :
        /\ IF res # "transport_error"
           THEN Step(Slack, "complete_upload",
                     <<Call("complete_upload", SendOnly(res)), Call("build_message", "ok")>>,
                     AfterBuildMessage, "pending", <<>>)
           ELSE Step(Slack, "complete_upload", <<Call("complete_upload", SendOnly(res))>>,
                     "recv", "err", SlackError("Image upload failed"))
        /\ UNCHANGED rxAlive

\* time::sleep(Duration::from_millis(3000)).await
SlackSleep ==
    /\ Step(Slack, "sleep", <<Call("sleep", "ok")>>, "send_message", "pending", <<>>)
    /\ UNCHANGED rxAlive

\* send_message: `?` on send() alone; Ok logs "Message sent".
SlackSendMessage ==
    \E res \in Responses :
        /\ IF res # "transport_error"
           THEN Step(Slack, "send_message", <<Call("send_message", res)>>,
                     "recv", "ok", <<Line("SLACK: Message sent", "")>>)
           ELSE Step(Slack, "send_message", <<Call("send_message", res)>>,
                     "recv", "err", SlackError("Failed to send message"))
        /\ UNCHANGED rxAlive

\* ---------------------------------------------------------- specification

\* The main thread: main() and, inside it, mqtt_client::run.
MainNext ==
    \/ SpawnDiscord
    \/ SpawnMatrix
    \/ SpawnSlack
    \/ MqttSubscribe
    \/ MqttPublish
    \/ MqttOther
    \/ MqttError
    \/ MainReturn

\* The Discord thread.
DiscordNext ==
    \/ DiscordInit
    \/ DiscordRecv
    \/ DiscordSend
    \/ RecvErr(Discord)

\* The Matrix thread.
MatrixNext ==
    \/ MatrixInit
    \/ MatrixRecv
    \/ MatrixUpload
    \/ MatrixSend
    \/ RecvErr(Matrix)

\* The Slack thread.
SlackNext ==
    \/ SlackInit
    \/ SlackRecv
    \/ SlackGetUploadUrl
    \/ SlackUploadFileData
    \/ SlackCompleteUpload
    \/ SlackSleep
    \/ SlackSendMessage
    \/ RecvErr(Slack)

WorkerNext(d) ==
    CASE d = Discord -> DiscordNext
      [] d = Matrix -> MatrixNext
      [] d = Slack -> SlackNext

Next ==
    \/ MainNext
    \/ DiscordNext
    \/ MatrixNext
    \/ SlackNext

Spec == Init /\ [][Next]_vars

\* ------------------------------------------------- build_message on its own

\* Any service, endpoint base and alert fields.
RenderInit ==
    /\ cfg = [d \in Services |-> FALSE]
    /\ NotStarted
    /\ join = [r \in Rooms |-> NoTask]
    /\ legacy = NoLegacy
    /\ \E d \in Services, e \in Endpoints, c \in CameraNames, t \in TimeTexts,
          n \in DetectionTexts, i \in DbIds :
          render = [pc |-> "input", service |-> d, alert_endpoint |-> e,
                    bvr_msg |-> BvrChirpMessage(1, "123456789012345678", c, n, i, t, <<>>),
                    out |-> <<>>]

\* The call of build_message (for Discord, the building of the embed).
BuildMessage ==
    /\ render.pc = "input"
    /\ render' = [render EXCEPT
                     !.pc = "rendered",
                     !.out = Render(render.service, render.alert_endpoint, render.bvr_msg)]
    /\ UNCHANGED <<programVars, join, legacy>>

RenderNext == BuildMessage

RenderSpec == RenderInit /\ [][RenderNext]_vars

\* ------------------------------------------ src/matrix_client.rs on its own

\* `let mut delay = 2`
JoinBase == 2

\* `if delay > 3600`
JoinCeiling == 3600

\* NextDelay that triples.
NextDelayTriples(delay) == delay * 3

\* `delay *= 2`
NextDelay(delay) == delay * 2

\* on_stripped_state_member for an invite to room r: return unless the
\* invite is for the bot itself, else spawn the autojoin task.
OnStrippedStateMember(r) ==
    /\ join[r].pc = "none"
    /\ \E mine \in BOOLEAN :
          join' = [join EXCEPT ![r] =
                     IF mine
                     THEN [NoTask EXCEPT !.pc = "join", !.delay = JoinBase,
                                         !.log = <<Line("Autojoining room", r)>>]
                     ELSE [NoTask EXCEPT !.pc = "ignored"]]
    /\ UNCHANGED <<programVars, render, legacy>>

\* One room.join().await of the task: Ok leaves the loop, Err logs the
\* retry and goes to sleep.
RoomJoin(r) ==
    /\ join[r].pc = "join"
    /\ \E ok \in BOOLEAN :
          join' = [join EXCEPT ![r] =
                     IF ok
                     THEN [@ EXCEPT !.pc = "joined",
                                    !.log = Append(@, Line("Successfully joined room", r))]
                     ELSE [@ EXCEPT !.pc = "sleep",
                                    !.attempts = @ + 1,
                                    !.log = Append(@, Line("Failed to join room, retrying", r))]]
    /\ UNCHANGED <<programVars, render, legacy>>

\* sleep(delay), `delay *= 2`, then the ceiling check: past it, log, break
\* and fall through to the println after the loop.
JoinSleep(r) ==
    /\ join[r].pc = "sleep"
    /\ LET next == NextDelay(join[r].delay)
       IN  join' = [join EXCEPT ![r] =
                      IF next > JoinCeiling
                      THEN [@ EXCEPT !.pc = "abandoned",
                                     !.waits = Append(@, join[r].delay),
                                     !.delay = next,
                                     !.log = @ \o <<Line("Can't join room", r),
                                                    Line("Successfully joined room", r)>>]
                      ELSE [@ EXCEPT !.pc = "join",
                                     !.waits = Append(@, join[r].delay),
                                     !.delay = next]]
    /\ UNCHANGED <<programVars, render, legacy>>

\* The targets of the alerts run() is given: the two rooms and a string
\* RoomId::parse rejects.
LegacyTargets == Rooms \cup {"front door"}

\* LegacyCanRun with run() waiting for the autojoin tasks.
LegacyCanRunJoinsIdle(j) == \A r \in Rooms : j[r].pc \notin {"join", "sleep"}

\* Whether run() can go on while the autojoin tasks are as j says: they are
\* tokio::spawn-ed and sleep with tokio's sleep, so always.
LegacyCanRun(j) == TRUE

\* run() is called with up to MaxAlerts alerts waiting; the caller keeps or
\* has dropped the Sender.
LegacyInit ==
    /\ cfg = [d \in Services |-> FALSE]
    /\ NotStarted
    /\ render = NoRender
    /\ join = [r \in Rooms |-> NoTask]
    /\ \E n \in 0..MaxAlerts, kept \in BOOLEAN :
          \E t \in [1..n -> LegacyTargets] :
              legacy = [NoLegacy EXCEPT
                          !.pc = "init",
                          !.senders = kept,
                          !.queue = [i \in 1..n |->
                                        BvrChirpMessage(i, t[i], "front_door", "person",
                                                        "42", "2024-01-01 10:00:00", <<>>)]]

\* Client::builder()..build().await?, login..await?, sync_once.
LegacyStart ==
    /\ legacy.pc = "init"
    /\ LegacyCanRun(join)
    /\ \E ok \in BOOLEAN :
          legacy' = [legacy EXCEPT !.pc = IF ok THEN "recv" ELSE "returned"]
    /\ UNCHANGED <<programVars, render, join>>

\* rx.recv() Ok, RoomId::parse (else: a bare `continue`), get_room(..).unwrap().
LegacyRecv ==
    /\ legacy.pc = "recv"
    /\ legacy.queue # <<>>
    /\ LegacyCanRun(join)
    /\ LET msg == Head(legacy.queue)
           taken == [legacy EXCEPT !.queue = Tail(@), !.cur = msg, !.steps = <<>>]
       IN  IF msg.target \notin Rooms
           THEN legacy' = [taken EXCEPT !.steps = <<Call("RoomId::parse", "err")>>]
           ELSE \E known \in BOOLEAN :
                   legacy' = IF known
                             THEN [taken EXCEPT !.pc = "upload",
                                                !.steps = <<Call("get_room", "ok")>>]
                             ELSE [taken EXCEPT !.pc = "panicked",
                                                !.steps = <<Call("get_room", "none")>>]
    /\ UNCHANGED <<programVars, render, join>>

\* rx.recv() Err: log and `continue`.
LegacyRecvErr ==
    /\ legacy.pc = "recv"
    /\ legacy.queue = <<>>
    /\ ~legacy.senders
    /\ LegacyCanRun(join)
    /\ Len(legacy.log) < MaxRecvErrs
    /\ legacy' = [legacy EXCEPT !.log = Append(@, Line("MATRIX: Failed to receive message", ""))]
    /\ UNCHANGED <<programVars, render, join>>

\* One awaited call of run() with `?`: Ok goes on to `next`, Err returns.
LegacyCall(pc, name, next) ==
    /\ legacy.pc = pc
    /\ LegacyCanRun(join)
    /\ \E res \in {"ok", "transport_error"} :
          legacy' = [legacy EXCEPT
                       !.pc = IF res = "ok" THEN next ELSE "returned",
                       !.steps = Append(@, Call(name, res))]
    /\ UNCHANGED <<programVars, render, join>>

\* client.media().upload(..).await?
LegacyUpload == LegacyCall("upload", "upload", "send_text")

\* room.send_raw(.. "m.text" ..).await?
LegacySendText == LegacyCall("send_text", "send_raw_text", "send_image")

\* room.send_raw(.. "m.image" ..).await?
LegacySendImage == LegacyCall("send_image", "send_raw_image", "recv")

\* run() of src/matrix_client.rs.
LegacyRun ==
    \/ LegacyStart
    \/ LegacyRecv
    \/ LegacyRecvErr
    \/ LegacyUpload
    \/ LegacySendText
    \/ LegacySendImage

\* The invite handler and the tasks it spawns.
JoinNext == \E r \in Rooms : OnStrippedStateMember(r) \/ RoomJoin(r) \/ JoinSleep(r)

LegacyNext == LegacyRun \/ JoinNext

LegacySpec == LegacyInit /\ [][LegacyNext]_vars

\* ------------------------------------------------------------ properties

\* The services that have a TxClient in tx_senders.
Registered == {tx_senders[i] : i \in 1..Len(tx_senders)}

InLog(log, line) == \E i \in 1..Len(log) : log[i] = line

Passed(d) == Line("MQTT: Passed message to", d)

FailedSend(d) == Line("MQTT: Failed to send message through channel to", d)

\* This step appended exactly one record to d's queue: the one made from
\* payload p by the event just counted.
EnqueuedOne(d, p) ==
    /\ Len(queue'[d]) = Len(queue[d]) + 1
    /\ SubSeq(queue'[d], 1, Len(queue[d])) = queue[d]
    /\ LET m == queue'[d][Len(queue'[d])]
       IN  /\ m.seq = events'
           /\ m.target = p.obj["target"].s
           /\ m.camera_name = p.obj["camera"].s
           /\ m.db_id = p.obj["db_id"].s

\* The required fields of p that are absent or not strings.
NotStrings(p) == {f \in Fields : p.obj[f].kind # "string"}

\* Malformed in the sense of C6: not UTF-8, not JSON, or an image that is
\* not valid base64.
Malformed(p) ==
    \/ ~p.utf8
    \/ ~p.json
    \/ NotStrings(p) = {} /\ ~B64Decode(p.obj["image"].s).ok

\* The payloads of each kind the claims speak of.
WellFormedOnes == {p \in Payloads : WellFormed(p)}

MalformedOnes == {p \in Payloads : Malformed(p)}

FieldlessOnes == {p \in Payloads : p.utf8 /\ p.json /\ NotStrings(p) # {}}

\* This step is run() taking a Publish event.
PublishStep == lastEvent' = "publish" /\ events' = events + 1

\* A queue holds the record of event n.
Holds(d, n) == \E i \in 1..Len(queue[d]) : queue[d][i].seq = n

\* C1 (as claimed): every broadcast of a well-formed payload enqueues exactly
\* one record on the queue of every service whose enabled flag is set, and
\* nothing on the queue of a service whose flag is not set.
C1_EnabledGetExactlyOne ==
    [][PublishStep => \A p \in WellFormedOnes :
          Publish(p) =>
              \A d \in Services :
                  IF cfg[d] THEN EnqueuedOne(d, p) ELSE queue'[d] = queue[d]]_vars

\* C1 (amended): every broadcast of a well-formed payload enqueues exactly one
\* record on the queue of every service whose enabled flag is set and whose
\* receiver has not been dropped, and nothing on any other queue.
C1_EnabledAndAliveGetExactlyOne ==
    [][PublishStep => \A p \in WellFormedOnes :
          Publish(p) =>
              \A d \in Services :
                  IF cfg[d] /\ rxAlive[d] THEN EnqueuedOne(d, p)
                  ELSE queue'[d] = queue[d]]_vars

\* A well-formed payload has just been broadcast with Discord disabled and
\* Matrix and Slack enabled: one record each for the two, none for Discord.
C1_Witness ==
    /\ lastEvent = "publish"
    /\ events = 1
    /\ ~cfg[Discord] /\ cfg[Matrix] /\ cfg[Slack]
    /\ queue[Discord] = <<>>
    /\ Len(queue[Matrix]) = 1 /\ Holds(Matrix, 1)
    /\ Len(queue[Slack]) = 1 /\ Holds(Slack, 1)

\* C2: when a registered service's receiver has been dropped, a broadcast
\* still enqueues the record on every registered queue whose receiver is
\* alive, logs the failed send for each dropped one, and the subscription
\* loop goes on.
C2_DeadReceiverDoesNotStopBroadcast ==
    [][PublishStep => \A p \in WellFormedOnes :
          (Publish(p) /\ \E d \in Registered : ~rxAlive[d]) =>
              /\ \A e \in Registered : rxAlive[e] => EnqueuedOne(e, p) /\ InLog(mqttLog', Passed(e))
              /\ \A d \in Registered : ~rxAlive[d] => InLog(mqttLog', FailedSend(d))
              /\ mainPc' = "listening"
              /\ procAlive']_vars

\* Discord's thread has ended (client construction failed); the broadcast
\* after that failed for Discord, first in tx_senders, and reached Matrix.
C2_Witness ==
    /\ wpc[Discord] = "init_failed"
    /\ lastEvent = "publish"
    /\ InLog(mqttLog, FailedSend(Discord))
    /\ InLog(mqttLog, Passed(Matrix))
    /\ Holds(Matrix, events)

\* Results of an adapter call that make the call a failure.
FailureResults == {"err", "transport_error", "none"}

\* Some adapter call made for the message worker d holds has failed.
StepFailed(d) == \E i \in 1..Len(steps[d]) : steps[d][i][2] \in FailureResults

\* The worker has logged an error for the message it holds.
ErrorLogged(d) ==
    \E i \in 1..Len(wlog[d]) :
        wlog[d][i][1] \in {"SLACK: Error processing message",
                           "MATRIX: Error processing message",
                           "DISCORD: Sending error"}

\* C3 (as claimed): after any failed render, upload or send step for one
\* alert, that service's worker is still running: it has logged the error,
\* dropped the alert and is back at its receive.
C3_WorkerSurvivesStepFailure ==
    \A d \in Services :
        StepFailed(d) =>
            /\ wpc[d] = "recv"
            /\ rxAlive[d]
            /\ outcome[d] = "err"
            /\ ErrorLogged(d)

\* The three calls of SlackClient::upload_file.
UploadCalls == {"get_upload_url", "upload_file_data", "complete_upload"}

\* An upload call made for the message Slack's worker holds has failed.
UploadFailed == \E i \in 1..Len(steps[Slack]) :
                   steps[Slack][i][1] \in UploadCalls /\ steps[Slack][i][2] = "err"

\* C4 (as claimed): in Slack's adapter, when an upload step fails,
\* process_alert returns an error for that alert, the failed step is the
\* last one made, and send_message is not invoked.
C4_UploadFailureReturnsError ==
    UploadFailed =>
        /\ outcome[Slack] = "err"
        /\ wpc[Slack] = "recv"
        /\ steps[Slack][Len(steps[Slack])][2] = "err"
        /\ \A i \in 1..Len(steps[Slack]) : steps[Slack][i][1] # "send_message"

\* C5: a payload in which a required field is missing or not a string
\* produces no record on any queue, and the subscription loop goes on.
C5_MissingFieldDropsMessage ==
    [][PublishStep => \A p \in FieldlessOnes :
          Publish(p) =>
              /\ queue' = queue
              /\ discarded' = discarded + 1
              /\ mainPc' = "listening"
              /\ procAlive'
              /\ rxAlive' = rxAlive]_vars

\* A payload without db_id has been discarded while Slack's worker waits on
\* its empty queue.
C5_Witness ==
    /\ lastEvent = "publish"
    /\ mqttLog = <<Line("MQTT: Missing field in JSON", "db_id")>>
    /\ discarded = 1
    /\ mainPc = "listening"
    /\ wpc[Slack] = "recv"
    /\ queue[Slack] = <<>>

Diagnostics ==
    {Line("MQTT: Failed to convert payload to string", ""),
     Line("MQTT: Failed to parse JSON", ""),
     Line("MQTT: Failed to decode base64 image", "")}

\* C6: a malformed message is discarded with a log line and produces no
\* record; the subscription loop goes on, and a well-formed message taken
\* right after a discarded one is broadcast to every live registered queue.
C6_MalformedDoesNotEndLoop ==
    [][PublishStep =>
          /\ \A p \in MalformedOnes :
                Publish(p) =>
                    /\ queue' = queue
                    /\ mqttLog' # <<>>
                    /\ mqttLog'[Len(mqttLog')] \in Diagnostics
                    /\ mainPc' = "listening"
                    /\ procAlive'
          /\ (lastEvent = "publish" /\ mqttLog # <<>>
                /\ mqttLog[Len(mqttLog)] \in Diagnostics) =>
                \A p \in WellFormedOnes :
                    Publish(p) =>
                        \A d \in Registered : rxAlive[d] => EnqueuedOne(d, p)]_vars

\* The first message was discarded and the second, well-formed, is on
\* Slack's queue.
C6_Witness ==
    /\ events = 2
    /\ discarded = 1
    /\ lastEvent = "publish"
    /\ InLog(mqttLog, Passed(Slack))
    /\ Holds(Slack, 2)
    /\ ~Holds(Slack, 1)
    /\ cur[Slack] = NoMessage

\* C7: each queue holds its records in the order their messages were
\* received, and every record still queued was received after the one the
\* worker took last (per-service FIFO).
C7_Fifo ==
    \A d \in Services :
        /\ \A i, j \in 1..Len(queue[d]) : i < j => queue[d][i].seq < queue[d][j].seq
        /\ \A i \in 1..Len(queue[d]) : cur[d].seq < queue[d][i].seq

\* Two alerts were broadcast to two live workers; one worker still holds the
\* first with the second queued, the other has taken the first and then the
\* second.
C7_Witness ==
    \E d, e \in Services :
        /\ d # e
        /\ cur[e].seq = 1
        /\ Len(queue[e]) = 1
        /\ Holds(e, 2)
        /\ cur[d].seq = 2
        /\ queue[d] = <<>>
        /\ wpc[d] \notin {"init", "init_failed", "unspawned"}

\* Worker d has a step to take as far as its own thread and queue go.
HasStep(d) ==
    \/ wpc[d] \in {"init", "upload_file", "send_message", "get_upload_url",
                   "upload_file_data", "complete_upload", "sleep"}
    \/ wpc[d] = "recv" /\ queue[d] # <<>>

\* C8: whatever the workers are doing, the subscription loop can take its
\* next message at once, and every worker that has a step to take can take
\* it whatever the other workers and the subscription loop are doing.
C8_NobodyWaitsOnAWorker ==
    /\ (procAlive /\ mainPc = "listening" /\ events < MaxEvents) => ENABLED MqttPublish
    /\ \A d \in Services : (procAlive /\ HasStep(d)) => ENABLED WorkerNext(d)

\* Slack's worker sits in its settling delay and Matrix's in its upload,
\* records already waiting on both queues, while the loop is listening.
C8_Witness ==
    /\ procAlive
    /\ mainPc = "listening"
    /\ events < MaxEvents
    /\ wpc[Slack] = "sleep"
    /\ wpc[Matrix] = "upload_file"
    /\ wpc[Discord] = "send_message"

\* Worker d's client construction fails in this step.
InitFails(d) == wpc[d] = "init" /\ wpc'[d] = "init_failed"

\* Nothing but worker d changes in this step.
OnlyWorkerChanges(d) ==
    /\ procAlive'
    /\ UNCHANGED <<mainVars, queue>>
    /\ \A e \in Services \ {d} :
          /\ wpc'[e] = wpc[e]
          /\ rxAlive'[e] = rxAlive[e]

\* C9 (as claimed): when a service's client cannot be constructed, only that
\* service's worker is disabled, with a log line; the main thread and every
\* other worker are left as they were.
C9_InitFailureIsIsolated ==
    [][\A d \in Services :
          InitFails(d) => OnlyWorkerChanges(d) /\ wlog'[d] # <<>>]_vars

\* C9 (amended): when Discord's client cannot be constructed, only Discord's
\* worker is disabled, with a log line, and a later broadcast still reaches
\* every other live queue; when Matrix's client cannot be constructed the
\* whole process exits.
C9_DiscordIsolatedMatrixExits ==
    [][/\ InitFails(Discord) => OnlyWorkerChanges(Discord) /\ wlog'[Discord] # <<>>
       /\ InitFails(Matrix) => ~procAlive' /\ wlog'[Matrix] # <<>>
       /\ (PublishStep /\ wpc[Discord] = "init_failed") => \A p \in WellFormedOnes :
             Publish(p) =>
                 \A e \in Registered : rxAlive[e] => EnqueuedOne(e, p)]_vars

\* Discord's client could not be constructed; Slack's worker has delivered
\* an alert that was broadcast after that.
C9_Witness ==
    /\ wpc[Discord] = "init_failed"
    /\ procAlive
    /\ mainPc = "listening"
    /\ cfg[Slack]
    /\ outcome[Slack] = "ok"
    /\ cur[Slack].seq = 1

\* C10 (as claimed): the program terminates if an enabled service fails to
\* start: no worker has failed its start-up while the process goes on.
C10_StartFailureTerminates ==
    \A d \in Services : wpc[d] = "init_failed" => ~procAlive

\* This step is run() taking an Err event.
ErrorStep == mainPc = "listening" /\ lastEvent' = "error"

\* queue'[d] is queue[d] with nothing added.
NothingEnqueued(d) ==
    \E k \in 0..Len(queue[d]) : queue'[d] = SubSeq(queue[d], k + 1, Len(queue[d]))

\* C11: an Err event from the broker connection ends the subscription loop:
\* after it no further event is taken or decoded and nothing more is enqueued
\* on any queue; a discarded payload of any kind leaves the loop listening.
C11_TransportErrorEndsLoop ==
    [][/\ ErrorStep => mainPc' = "returned"
       /\ lastEvent = "error" =>
             /\ lastEvent' = "error"
             /\ mainPc' \in {"returned", "exited"}
             /\ events' = events
             /\ discarded' = discarded
             /\ mqttLog' = mqttLog
             /\ \A d \in Services : NothingEnqueued(d)
       /\ PublishStep => \A p \in MalformedOnes \cup FieldlessOnes :
             Publish(p) => mainPc' = "listening"]_vars

\* After one discarded and one broadcast payload the connection reported an
\* error; the loop has ended with the broadcast record still queued.
C11_Witness ==
    /\ lastEvent = "error"
    /\ mainPc = "returned"
    /\ events = 2
    /\ discarded = 1
    /\ \E d \in Services : Holds(d, 1) \/ Holds(d, 2)

\* The names of the adapter calls made for the message worker d holds.
CallNames(d) == [i \in 1..Len(steps[d]) |-> steps[d][i][1]]

\* No adapter call has been made twice for the message worker d holds.
OnceEach(d) ==
    \A i, j \in 1..Len(steps[d]) : steps[d][i][1] = steps[d][j][1] => i = j

\* Worker d passes from its receive to processing (or skipping) a message.
TakeStep(d) ==
    /\ wpc[d] = "recv"
    /\ queue[d] # <<>>
    /\ wpc'[d] # wpc[d] \/ cur'[d] # cur[d] \/ outcome'[d] # outcome[d]

\* C12: delivery is at most once per alert per destination: every message a
\* worker takes is a new one and leaves the queue for good, no adapter call
\* (the final send included) is made twice for it, and only the dispatcher
\* ever adds to a queue, and then the record of the event just taken.
C12_AtMostOnce ==
    [][\A d \in Services :
          /\ TakeStep(d) =>
                /\ cur'[d] = Head(queue[d])
                /\ cur'[d].seq > cur[d].seq
                /\ queue'[d] = Tail(queue[d])
                /\ steps'[d] = <<>>
          /\ OnceEach(d)'
          /\ Len(queue'[d]) > Len(queue[d]) =>
                /\ PublishStep
                /\ Len(queue'[d]) = Len(queue[d]) + 1
                /\ queue'[d][Len(queue'[d])].seq = events'
                /\ events' > cur[d].seq]_vars

\* Slack's worker has failed to deliver the first alert and waits on its
\* empty queue, while Matrix's worker has sent that alert into the room.
C12_Witness ==
    /\ procAlive
    /\ wpc[Slack] = "recv"
    /\ cur[Slack].seq = 1
    /\ outcome[Slack] = "err"
    /\ queue[Slack] = <<>>
    /\ cur[Matrix].seq = 1
    /\ outcome[Matrix] = "ok"
    /\ steps[Matrix][Len(steps[Matrix])] = Call("room_send", "ok")

\* s is an initial part of t.
IsPrefix(s, t) == Len(s) <= Len(t) /\ s = SubSeq(t, 1, Len(s))

\* The calls of SlackClient::process_alert for one alert, as the claim
\* orders them.
SlackOrder ==
    <<"get_upload_url", "upload_file_data", "complete_upload", "build_message",
      "sleep", "send_message">>

\* C13: in Slack's adapter the calls for one alert are made in the order
\* get_upload_url, upload_file_data, complete_upload, build_message,
\* send_message, and send_message is not made before the sleep that follows
\* complete_upload is over.
C13_SlackStepOrder ==
    /\ IsPrefix(CallNames(Slack), SlackOrder)
    /\ \A i \in 1..Len(steps[Slack]) :
          steps[Slack][i][1] = "send_message" =>
              /\ i > 2
              /\ steps[Slack][i - 1] = Call("sleep", "ok")
              /\ steps[Slack][i - 2][1] = "build_message"

\* Slack's worker has gone through all six calls and the post was accepted.
C13_Witness ==
    /\ CallNames(Slack) = SlackOrder
    /\ steps[Slack][6] = Call("send_message", "ok")
    /\ outcome[Slack] = "ok"
    /\ wpc[Slack] = "recv"

\* Discord's worker takes a message whose target does not parse as u64.
InvalidChannelStep ==
    /\ wpc[Discord] = "recv"
    /\ queue[Discord] # <<>>
    /\ Head(queue[Discord]).target \notin IsU64
    /\ cur'[Discord] = Head(queue[Discord])

\* Discord's worker has just skipped a message with an invalid target.
SkippedInvalid ==
    /\ wpc[Discord] = "recv"
    /\ cur[Discord].seq > 0
    /\ cur[Discord].target \notin IsU64

MatrixOrder == <<"upload_file", "build_message", "get_room", "room_send">>

\* The upload failed or the room was not found for the message Matrix holds.
MatrixCannotSend ==
    \E i \in 1..Len(steps[Matrix]) :
        \/ steps[Matrix][i] = Call("upload_file", "transport_error")
        \/ steps[Matrix][i] = Call("get_room", "none")

\* C19: in Matrix's adapter the calls for one alert are made in the order
\* upload_file, build_message, get_room, room.send; when the upload fails or
\* the room is not found nothing is sent for that alert and process_alert
\* returns an error.
C19_MatrixStepOrder ==
    /\ IsPrefix(CallNames(Matrix), MatrixOrder)
    /\ MatrixCannotSend =>
          /\ \A i \in 1..Len(steps[Matrix]) : steps[Matrix][i][1] # "room_send"
          /\ outcome[Matrix] = "err"
          /\ wpc[Matrix] = "recv"
          /\ ErrorLogged(Matrix)

\* Matrix's worker uploaded the image and rendered the message, the room was
\* not found, and the worker is back at its receive with the error logged.
C19_Witness ==
    /\ steps[Matrix] =
          <<Call("upload_file", "ok"), Call("build_message", "ok"), Call("get_room", "none")>>
    /\ outcome[Matrix] = "err"
    /\ wpc[Matrix] = "recv"
    /\ InLog(wlog[Matrix], Line("MATRIX: Error processing message", "Failed to find the room"))

\* The texts of the lines by which a worker reports that a message was not
\* delivered.
ErrorTexts ==
    {"SLACK: Error processing message", "MATRIX: Error processing message",
     "DISCORD: Sending error", "DISCORD: Invalid channel ID", "thread panicked"}

\* The message worker d holds was not delivered: a call for it failed or was
\* refused by the service, or the worker gave it up.
NotDelivered(d) ==
    \/ outcome[d] \in {"err", "panic"}
    \/ \E i \in 1..Len(steps[d]) : steps[d][i][2] \notin {"ok"}

\* Worker d has finished with the message it holds.
Finished(d) == outcome[d] \in {"ok", "err", "panic"}

\* C20 (as claimed): no error is swallowed: every payload the subscription
\* loop discards and every message a worker does not deliver has an error
\* line in the log by the time the loop goes on.
C20_NoErrorSwallowed ==
    [][/\ (PublishStep /\ discarded' = discarded + 1) => mqttLog' # <<>>
       /\ \A d \in Services :
             (Finished(d)' /\ NotDelivered(d)') =>
                 \E i \in 1..Len(wlog'[d]) : wlog'[d][i][1] \in ErrorTexts]_vars

\* The waits w are JoinBase, 2 * JoinBase, 4 * JoinBase, ...
Doubling(w) == \A i \in 1..Len(w) : w[i] = IF i = 1 THEN JoinBase ELSE 2 * w[i - 1]

\* How often line is in log.
Count(log, line) == Cardinality({i \in 1..Len(log) : log[i] = line})

\* C14: while the join attempts for a room keep failing, the waits between
\* them are base, 2 * base, 4 * base, ..., one after each failed attempt; once
\* the doubled delay is past the ceiling the task does nothing more for that
\* room, and it has logged "Can't join room" exactly once.
C14_JoinBackoff ==
    [][\A r \in Rooms :
          /\ Doubling(join'[r].waits)
          /\ join'[r].pc = "sleep" => join'[r].attempts = Len(join'[r].waits) + 1
          /\ join'[r].pc \in {"join", "abandoned"} =>
                join'[r].attempts = Len(join'[r].waits)
          /\ join'[r].pc = "sleep" => join'[r].delay = JoinBase * 2^Len(join'[r].waits)
          /\ join'[r].delay > JoinCeiling <=> join'[r].pc = "abandoned"
          /\ join[r].pc = "abandoned" => join'[r] = join[r]
          /\ Count(join'[r].log, Line("Can't join room", r)) =
                IF join'[r].pc = "abandoned" THEN 1 ELSE 0]_vars

\* The task of one room has given up after waiting 2, 4, ..., 2048 seconds,
\* while the task of the other room is still retrying.
C14_Witness ==
    \E r, q \in Rooms :
        /\ join[r].pc = "abandoned"
        /\ join[r].waits = <<2, 4, 8, 16, 32, 64, 128, 256, 512, 1024, 2048>>
        /\ join[r].attempts = 11
        /\ join[q].pc = "sleep"
        /\ join[q].waits = <<2, 4>>

\* run() has a step to take as far as its own state and queue go.
LegacyHasStep ==
    \/ legacy.pc \in {"init", "upload", "send_text", "send_image"}
    \/ legacy.pc = "recv" /\ legacy.queue # <<>>

Contains(hay, needle) ==
    \E i \in 0..(Len(hay) - Len(needle)) : SubSeq(hay, i + 1, i + Len(needle)) = needle

\* The template build_message of service d starts from.
Template(d) == IF d = Matrix THEN MATRIX_TEMPLATE ELSE SLACK_TEMPLATE

\* The value the substitution set has for placeholder ph.
ValueOf(ph, d, alert_endpoint, bvr_msg) ==
    CASE ph \in {"<IMG_URI>", "<IMG_ID>"} -> AssetRef(d)
      [] ph = "<CAMERA_NAME>" -> bvr_msg.camera_name
      [] ph = "<TIME>" -> bvr_msg.time
      [] ph = "<DETECTIONS>" -> bvr_msg.detections
      [] ph = "<ENDPOINT_URL>" ->
            DeepLink(alert_endpoint, bvr_msg.db_id, bvr_msg.camera_name)

RECURSIVE EachOnce(_, _, _, _)
\* tpl with every placeholder occurrence replaced, once, by its value.
EachOnce(tpl, d, alert_endpoint, bvr_msg) ==
    IF tpl = <<>> THEN <<>>
    ELSE (IF Head(tpl) \in Placeholders
          THEN ValueOf(Head(tpl), d, alert_endpoint, bvr_msg)
          ELSE <<Head(tpl)>>)
            \o EachOnce(Tail(tpl), d, alert_endpoint, bvr_msg)

\* C16 (as claimed): with a complete substitution set, whatever the field
\* values, build_message returns the template with every placeholder
\* occurrence replaced exactly once by its value, no placeholder of the
\* template is left in it, and rendering the result again changes nothing.
C16_RenderReplacesEachOnce ==
    (render.pc = "rendered" /\ render.service \in {Matrix, Slack}) =>
        LET d == render.service
            e == render.alert_endpoint
            m == render.bvr_msg
            expected == EachOnce(Template(d), d, e, m)
        IN  /\ render.out = expected
            /\ \A i \in 1..Len(render.out) :
                  render.out[i] \in Placeholders =>
                      \E v \in {m.camera_name, m.time, m.detections} :
                          Contains(v, <<render.out[i]>>)
            /\ RenderAgain(d, render.out, e, m) = render.out

\* C17 (as claimed): for every alert and endpoint base, what each service
\* renders carries the deep link endpoint/ui3.htm?rec=db_id&cam=camera&m=1
\* and contains the camera name, the detections and the time verbatim.
C17_RenderCarriesLinkAndFields ==
    render.pc = "rendered" =>
        LET m == render.bvr_msg
        IN  /\ Contains(render.out, DeepLink(render.alert_endpoint, m.db_id, m.camera_name))
            /\ Contains(render.out, m.camera_name)
            /\ Contains(render.out, m.detections)
            /\ Contains(render.out, m.time)

\* Record m has the six fields run() decoded from payload p.
DecodedFrom(m, p) ==
    /\ m.target = p.obj["target"].s
    /\ m.camera_name = p.obj["camera"].s
    /\ m.detections = p.obj["detections"].s
    /\ m.db_id = p.obj["db_id"].s
    /\ m.time = p.obj["time"].s
    /\ m.image = B64Decode(p.obj["image"].s).bytes

\* Worker d does something in this step.
WorkerActs(d) ==
    wpc[d] # "unspawned" /\ <<wpc'[d], cur'[d], steps'[d], outcome'[d], wlog'[d]>>
                               # <<wpc[d], cur[d], steps[d], outcome[d], wlog[d]>>

\* C21: every record put on a queue has the six fields decoded from the
\* payload, every live registered queue gets a record of its own with these
\* fields, a worker takes from its queue exactly the record that was put
\* there and holds it unchanged while it works on it, and no step of one
\* worker changes a record another worker holds or has queued.
C21_RecordsAreFaithfulCopies ==
    [][/\ PublishStep => \A p \in WellFormedOnes :
             Publish(p) =>
                 \A d \in Registered :
                     rxAlive[d] =>
                         /\ Len(queue'[d]) = Len(queue[d]) + 1
                         /\ DecodedFrom(queue'[d][Len(queue'[d])], p)
       /\ \A d \in Services :
             /\ TakeStep(d) => cur'[d] = Head(queue[d])
             /\ cur'[d] # cur[d] => TakeStep(d)
             /\ WorkerActs(d) =>
                   \A e \in Services \ {d} : cur'[e] = cur[e] /\ queue'[e] = queue[e]]_vars

\* Matrix's and Slack's workers both hold the record of the first payload,
\* with the same fields and the decoded image bytes; Matrix has sent it and
\* Slack has failed to.
C21_Witness ==
    /\ cur[Matrix].seq = 1
    /\ cur[Slack] = cur[Matrix]
    /\ cur[Matrix].target = "123456789012345678"
    /\ cur[Matrix].detections = "person"
    /\ cur[Matrix].time = "2024-01-01 10:00:00"
    /\ cur[Matrix].image = <<255, 216, 255>>
    /\ outcome[Matrix] = "ok"
    /\ outcome[Slack] = "err"

\* C22: the dispatcher is a pure router: a broadcast leaves tx_senders as
\* it was, tries every registered client (one log line each, a client whose
\* receiver is gone included), and a queue gets the record exactly when it
\* is registered and its receiver is alive, whatever was broadcast before.
C22_PureRouter ==
    [][PublishStep =>
          /\ tx_senders' = tx_senders
          /\ rxAlive' = rxAlive
          /\ \A p \in WellFormedOnes :
                Publish(p) =>
                    /\ \A d \in Registered :
                          IF rxAlive[d]
                          THEN EnqueuedOne(d, p) /\ InLog(mqttLog', Passed(d))
                               /\ ~InLog(mqttLog', FailedSend(d))
                          ELSE queue'[d] = queue[d] /\ InLog(mqttLog', FailedSend(d))
                               /\ ~InLog(mqttLog', Passed(d))
                    /\ \A d \in Services \ Registered : queue'[d] = queue[d]
                    /\ Len(mqttLog') = 1 + Len(tx_senders)]_vars

\* Discord's client was never constructed; two alerts have been broadcast,
\* Matrix got both, and the second broadcast tried Discord again.
C22_Witness ==
    /\ wpc[Discord] = "init_failed"
    /\ queue[Discord] = <<>>
    /\ events = 2
    /\ lastEvent = "publish"
    /\ tx_senders = <<Discord, Matrix>>
    /\ Len(mqttLog) = 3
    /\ mqttLog[2] = FailedSend(Discord)
    /\ mqttLog[3] = Passed(Matrix)
    /\ Holds(Matrix, 1) \/ cur[Matrix].seq = 1
    /\ Holds(Matrix, 2)

MissingField(f) == Line("MQTT: Missing field in JSON", f)

\* C23: a payload with a missing or non-string required field is discarded
\* with exactly one diagnostic, which names the first such field in the
\* order target, camera, detections, db_id, time, image; the base64 decoding
\* is tried, and its diagnostic logged, only for a payload that has all six.
C23_NamesFirstMissingField ==
    [][PublishStep => \A p \in Payloads :
          Publish(p) =>
              /\ p \in FieldlessOnes =>
                    \E i \in 1..Len(FieldOrder) :
                        /\ mqttLog' = <<MissingField(FieldOrder[i])>>
                        /\ FieldOrder[i] \in NotStrings(p)
                        /\ \A j \in 1..(i - 1) : FieldOrder[j] \notin NotStrings(p)
              /\ InLog(mqttLog', Line("MQTT: Failed to decode base64 image", "")) =>
                    p.utf8 /\ p.json /\ NotStrings(p) = {}
              /\ (\E f \in Fields : InLog(mqttLog', MissingField(f))) =>
                    p \in FieldlessOnes]_vars

\* The second payload lacked fields and was discarded with the one
\* diagnostic naming time, after a first payload that was broadcast.
C23_Witness ==
    /\ lastEvent = "publish"
    /\ events = 2
    /\ discarded = 1
    /\ mqttLog = <<MissingField("time")>>
    /\ mainPc = "listening"
    /\ \E d \in Services : Holds(d, 1)

\* The texts of the lines by which a worker confirms a delivery.
SentTexts == {"SLACK: Message sent", "MATRIX: Message sent", "DISCORD: Message sent"}

\* How many outcome lines, confirmations or errors, worker d has logged for
\* the message it holds.
OutcomeLines(d) ==
    Cardinality({i \in 1..Len(wlog[d]) : wlog[d][i][1] \in SentTexts \cup ErrorTexts})

\* Worker d has logged a delivery confirmation for the message it holds.
Confirmed(d) == \E i \in 1..Len(wlog[d]) : wlog[d][i][1] \in SentTexts

\* C24 (as claimed): for every message a worker has finished with, exactly
\* one outcome is logged, a delivery confirmation or an error, and the
\* confirmation is logged only if every call made for the message succeeded,
\* the destination accepting the final post included.
C24_ConfirmationOnlyOnSuccess ==
    \A d \in Services :
        Finished(d) =>
            /\ OutcomeLines(d) = 1
            /\ Confirmed(d) => \A i \in 1..Len(steps[d]) : steps[d][i][2] = "ok"

\* The threads are scheduled fairly: a worker that can take a step does take
\* one, and so does main() where its next step is its own (a spawn, its
\* return). Nothing obliges the broker to deliver another event.
FairSpec ==
    /\ Spec
    /\ WF_vars(SpawnDiscord \/ SpawnMatrix \/ SpawnSlack \/ MainReturn)
    /\ WF_vars(DiscordNext)
    /\ WF_vars(MatrixNext)
    /\ WF_vars(SlackNext)

\* Worker d is in its receive loop.
Running(d) ==
    /\ procAlive
    /\ wpc[d] \notin {"unspawned", "init", "init_failed", "returned", "panicked"}

\* Worker d has taken message n and finished with it, delivered or with a
\* logged error.
Processed(d, n) ==
    /\ cur[d].seq = n
    /\ outcome[d] \in {"ok", "err"}
    /\ wpc[d] = "recv"

\* C25 (as claimed): with the workers scheduled fairly and every call
\* returning, every message in the queue of a running worker is eventually
\* taken and its processing finishes with a delivery or a logged error,
\* unless the process ends first; no message stays in the queue for ever.
C25_EveryAlertIsProcessed ==
    \A d \in Services : \A n \in 1..MaxAlerts :
        (Holds(d, n) /\ Running(d)) ~> (Processed(d, n) \/ ~procAlive)

\* C26: a worker processes one message at a time: it takes a message only at
\* its receive, when it has finished with the one before; while a message is
\* being processed (Slack's sleep after the upload included) the worker
\* keeps it, takes nothing from its queue, and every call it makes is added
\* to the calls of that message.
C26_OneAlertAtATime ==
    [][\A d \in Services :
          /\ cur'[d] # cur[d] =>
                /\ wpc[d] = "recv"
                /\ outcome[d] # "pending"
                /\ steps'[d] = <<>>
          /\ outcome[d] = "pending" =>
                /\ wpc[d] # "recv"
                /\ cur'[d] = cur[d]
                /\ IsPrefix(queue[d], queue'[d])
                /\ IsPrefix(steps[d], steps'[d])
          /\ steps'[d] # steps[d] =>
                \/ cur'[d] # cur[d]
                \/ outcome[d] = "pending" /\ Len(steps'[d]) > Len(steps[d])]_vars

\* Slack's worker is in the sleep that follows the upload of the second
\* alert, having finished with the first.
C26_Witness ==
    /\ wpc[Slack] = "sleep"
    /\ cur[Slack].seq = 2
    /\ outcome[Slack] = "pending"
    /\ CallNames(Slack) = SubSeq(SlackOrder, 1, 4)
    /\ queue[Slack] = <<>>

\* C27 (as claimed): "Successfully joined room" is logged for a room only if
\* a join attempt for it has succeeded; a join abandoned past the ceiling
\* logs "Can't join room" and no success line.
C27_SuccessOnlyWhenJoined ==
    \A r \in Rooms :
        /\ InLog(join[r].log, Line("Successfully joined room", r)) => join[r].pc = "joined"
        /\ join[r].pc = "abandoned" =>
              /\ Count(join[r].log, Line("Can't join room", r)) = 1
              /\ ~InLog(join[r].log, Line("Successfully joined room", r))

\* C28 (as claimed): a join whose attempts all fail ends: it makes at most
\* 11 attempts, its waits are 2, 4, 8, ..., 2048 seconds, none longer than
\* the ceiling, and every wait is followed by another join attempt.
C28_EveryWaitIsFollowedByAnAttempt ==
    [][\A r \in Rooms :
          /\ join'[r].attempts <= 11
          /\ Len(join'[r].waits) <= 11
          /\ Doubling(join'[r].waits)
          /\ \A i \in 1..Len(join'[r].waits) : join'[r].waits[i] <= JoinCeiling
          /\ Len(join'[r].waits) > Len(join[r].waits) => join'[r].pc = "join"]_vars

\* C29 (as claimed): with the send end of its queue dropped and the queue
\* empty, a worker at its receive processes no message, and a step it takes
\* there ends its loop: it does not go round through failed receives.
C29_NoSpinOnClosedQueue ==
    [][\A d \in Services :
          (wpc[d] = "recv" /\ queue[d] = <<>> /\ mainPc = "returned" /\ WorkerActs(d)) =>
              /\ cur'[d] = cur[d]
              /\ steps'[d] = steps[d]
              /\ wpc'[d] # "recv"]_vars

====
